---- MODULE Spec2Model ----
(***************************************************************************)
(* The research-approval workflow of backend/research_agent.py:            *)
(* the ResearchRequest lifecycle and the ResearchAgent that mediates it.   *)
(*                                                                         *)
(* Handlers run on one asyncio event loop.  propose_research,              *)
(* approve_research and deny_research never suspend, so each is one atomic *)
(* action.  execute_approved_research suspends once, at the remote call    *)
(* inside _conduct_research, so it is two actions: the part up to the      *)
(* await, and the part that runs when the remote call returns or raises.   *)
(*                                                                         *)
(* datetime.now() is read as a clock that never runs backwards: each read   *)
(* returns a value at or after the previous one.                           *)
(*                                                                         *)
(* The endpoints of backend/app.py run on the same event loop: the         *)
(* research endpoints wrap the agent's handlers, and chat, panel and the    *)
(* admin endpoints work on the completion client and the advisor table.     *)
(* OpenRouterClient.complete calls the blocking requests.post, so a panel   *)
(* keeps the event loop from its first completion call to its return; it   *)
(* is modelled one loop iteration per step, with every other handler held  *)
(* back while it runs.                                                     *)
(*                                                                         *)
(* Text is a sequence of tokens: a word, or the line break "\n".  Words on *)
(* one line are separated by single blanks, which are not tokens.          *)
(***************************************************************************)
EXTENDS Integers, Sequences, FiniteSets, TLC

\* Bounds of the model.
MaxRequests == 2
MaxClock == 1

\* Optional[datetime] = None
None == -1
\* Optional[Dict] = None
NoneDict == [none |-> TRUE]
\* {}
EmptyDict == << >>
\* True and False as return values, and a list as a return value: every value a
\* handler hands back is kept as a record.
True == [bool |-> TRUE]
False == [bool |-> FALSE]
List(items) == [list |-> items]

\* class ResearchStatus(Enum)
PROPOSED == "proposed"
APPROVED == "approved"
DENIED == "denied"
IN_PROGRESS == "in_progress"
COMPLETED == "completed"
FAILED == "failed"
ResearchStatus == {PROPOSED, APPROVED, DENIED, IN_PROGRESS, COMPLETED, FAILED}

\* self.research_model, self.cost_per_1k_tokens (in thousandths of a dollar)
research_model == "openai/gpt-5-nano"
cost_per_1k_tokens == 8
\* len(refined_query.split()) * 3
tokens_per_word == 3

\* The values str(uuid.uuid4()) can take; one more than the registry can hold,
\* so that some id is always unknown.
Ids == 1..(MaxRequests + 1)

VARIABLES
    pending_requests,   \* the registry, a dict in insertion order: a sequence of ResearchRequest
    clock,              \* the last value datetime.now() returned
    awaiting,           \* per id, the execute coroutines suspended on the remote call
    remote_calls,       \* history: per id, the remote calls issued so far
    approve_true,       \* history: per id, the approve_research calls that returned True
    deny_true,          \* history: per id, the deny_research calls that returned True
    outcome,            \* what the most recent handler step returned, raised or awaits
    before,             \* history: the state the most recent handler step started from
    OPENROUTER_API_KEY, \* app.py: os.environ.get("OPENROUTER_API_KEY"), read once at import
    ADVISOR_PROFILES,   \* app.py: the persona table, a dict in insertion order: a sequence of ids
    panel,              \* app.py: the locals of the panel_discussion call in progress
    http                \* app.py: what the endpoint of the most recent handler step answered

\* What research_agent.py keeps and what app.py keeps.
agent_vars == <<pending_requests, clock, awaiting, remote_calls, approve_true, deny_true>>
board_vars == <<OPENROUTER_API_KEY, ADVISOR_PROFILES, panel>>

vars == <<pending_requests, clock, awaiting, remote_calls, approve_true, deny_true, outcome, before,
          OPENROUTER_API_KEY, ADVISOR_PROFILES, panel, http>>

----------------------------------------------------------------------------
\* The inputs the handlers are called with.

Queries == {<<"pricing", "strategy">>}
Contexts == {<<"SaaS", "founder">>}
alex == [advisor |-> "alex", suggestion |-> <<"check", "CAC", "payback">>]
seth == [advisor |-> "seth", suggestion |-> <<"niche">>]
no_suggestion == [advisor |-> "mark"]
no_advisor == [suggestion |-> <<"sell">>]
SuggestionLists == {<<alex, seth>>, <<alex, no_suggestion>>, <<no_advisor>>}
Reasons == {"None", "", "too costly"}

\* What the remote endpoint can answer to one POST.
brief == <<"RESEARCH", "BRIEF...">>
usage == [total_tokens |-> 7]
choices == <<[message |-> [content |-> brief]]>>
Responses ==
    { [raised |-> FALSE, status |-> 200, json |-> [choices |-> choices, usage |-> usage]],
      [raised |-> FALSE, status |-> 200, json |-> [error |-> <<"overloaded">>]],
      [raised |-> FALSE, status |-> 500, text |-> <<"upstream", "down">>],
      [raised |-> TRUE, exception |-> [type |-> "ClientConnectorError",
                                        message |-> <<"Cannot", "connect">>]] }

----------------------------------------------------------------------------
\* The registry: dict operations on an insertion-ordered mapping id -> request.

Keys == {pending_requests[i].id : i \in 1..Len(pending_requests)}

Index(request_id) == CHOOSE i \in 1..Len(pending_requests) : pending_requests[i].id = request_id

\* self.pending_requests[request_id]
Get(request_id) == pending_requests[Index(request_id)]

\* Mutant of SetItem: a registry that drops its oldest entry to admit a new one.
SetItem_Evicting(request_id, request) ==
    IF pending_requests = << >>
    THEN Append(pending_requests, request)
    ELSE Append(Tail(pending_requests), request)

\* self.pending_requests[request_id] = request
SetItem(request_id, request) ==
    IF request_id \in Keys
    THEN [pending_requests EXCEPT ![Index(request_id)] = request]
    ELSE Append(pending_requests, request)

\* A variant of Mutate that writes to the oldest request of the registry.
Mutate_First(request_id, request) == [pending_requests EXCEPT ![1] = request]

\* request.<field> = ... on the object the registry holds under request_id
Mutate(request_id, request) == [pending_requests EXCEPT ![Index(request_id)] = request]

\* request_id in self.pending_requests
Known(request_id) == request_id \in Keys

\* Mutant of uuid4: an id generator that returns the same id on every call.
uuid4_Constant == CHOOSE request_id \in Ids : TRUE

\* str(uuid.uuid4()): an id no earlier call returned, so one that is not a key yet
uuid4 == CHOOSE request_id \in Ids : request_id \notin Keys

----------------------------------------------------------------------------
\* str(e)
Str(e) ==
    IF e.type = "KeyError" THEN <<"'" , e.key, "'">> ELSE e.message

\* len(text.split())
WordCount(text) == Cardinality({i \in 1..Len(text) : text[i] # "\n"})

\* A variant of Bullets that keeps the attribution of suggestion_text.
RECURSIVE Bullets_Attributed(_)
Bullets_Attributed(suggestions) ==
    IF suggestions = << >> THEN << >>
    ELSE <<"-", Head(suggestions).advisor, ":">> \o Head(suggestions).suggestion \o <<"\n">>
            \o Bullets_Attributed(Tail(suggestions))

\* for suggestion in suggestions: refined += f"- {suggestion['suggestion']}\n"
RECURSIVE Bullets(_)
Bullets(suggestions) ==
    IF suggestions = << >> THEN << >>
    ELSE <<"-">> \o Head(suggestions).suggestion \o <<"\n">> \o Bullets(Tail(suggestions))

\* A variant of MissingKey that reads only the 'suggestion' key, as the loop
\* over the bullets does.
RECURSIVE MissingKey_SuggestionOnly(_)
MissingKey_SuggestionOnly(suggestions) ==
    IF suggestions = << >> THEN "None"
    ELSE IF "suggestion" \notin DOMAIN Head(suggestions) THEN "suggestion"
    ELSE MissingKey_SuggestionOnly(Tail(suggestions))

\* suggestion_text = "\n".join([f"- {s['advisor']}: {s['suggestion']}" ...]):
\* the first entry, in list order, that lacks a key raises KeyError for that key.
RECURSIVE MissingKey(_)
MissingKey(suggestions) ==
    IF suggestions = << >> THEN "None"
    ELSE IF "advisor" \notin DOMAIN Head(suggestions) THEN "advisor"
    ELSE IF "suggestion" \notin DOMAIN Head(suggestions) THEN "suggestion"
    ELSE MissingKey(Tail(suggestions))

\* ResearchAgent._refine_query_with_suggestions, on suggestions with no missing key
_refine_query_with_suggestions(query, context, suggestions) ==
    query \o <<"\n", "\n", "Specific", "areas", "to", "investigate", "based", "on",
               "advisor", "input:", "\n">> \o Bullets(suggestions)

\* estimated_tokens = len(refined_query.split()) * 3
\* cost_estimate = (estimated_tokens / 1000) * self.cost_per_1k_tokens, in millionths of a dollar
CostEstimate(refined_query) == (WordCount(refined_query) * tokens_per_word) * cost_per_1k_tokens

\* ResearchRequest(id=..., query=..., ...) with __post_init__ reading the clock
ResearchRequest(request_id, query, context, suggestions, refined_query, cost_estimate, now) ==
    [id |-> request_id,
     query |-> query,
     original_context |-> context,
     advisor_suggestions |-> suggestions,
     refined_query |-> refined_query,
     status |-> PROPOSED,
     created_at |-> now,
     approved_at |-> None,
     completed_at |-> None,
     results |-> NoneDict,
     cost_estimate |-> cost_estimate]

----------------------------------------------------------------------------
\* The lines of approve_research, deny_research and execute_approved_research.

\* Mutants of the three precondition checks, of the status assignments and of
\* the "not found" error: each is the line with a plausible slip in it.
ApproveGuard_NotApproved(request) == request.status # APPROVED
ApproveGuard_OrDenied(request) == request.status \in {PROPOSED, DENIED}
DenyGuard_OrApproved(request) == request.status \in {PROPOSED, APPROVED}
ExecuteGuard_OrProposed(request) == request.status \in {PROPOSED, APPROVED}
ExecuteGuard_OrFailed(request) == request.status \in {APPROVED, FAILED}
ExecuteGuard_OrDenied(request) == request.status \in {APPROVED, DENIED}
ExecuteGuard_OrInProgress(request) == request.status \in {APPROVED, IN_PROGRESS}
InProgress_Unset(request) == request
Completed_NoTimestamp(request, research_results, now) ==
    [request EXCEPT !.status = COMPLETED, !.results = research_results]
Failed_NoStatus(request, e) == [request EXCEPT !.results = [error |-> e.type]]
ValueErrorNotFound_KeyError(request_id) == [type |-> "KeyError", key |-> request_id]
IsProposed_NotDecided(req) == req.status \in {PROPOSED, APPROVED}
Denied_UnlessNone(request, reason) ==
    IF reason # "None"
    THEN [request EXCEPT !.status = DENIED, !.results = [denial_reason |-> reason]]
    ELSE [request EXCEPT !.status = DENIED]
Completed_StampsCreatedAt(request, research_results, now) ==
    [request EXCEPT !.status = COMPLETED, !.completed_at = now, !.results = research_results,
                    !.created_at = now]
Failed_AndCompletedAt(request, e) ==
    [request EXCEPT !.status = FAILED, !.results = [error |-> Str(e)],
                    !.completed_at = request.approved_at]
InProgress_EmptyResults(request) ==
    [request EXCEPT !.status = IN_PROGRESS, !.results = EmptyDict]
DenyGuard_OrInProgress(request) == request.status \in {PROPOSED, IN_PROGRESS}
Failed_StaysInProgress(request, e) == [request EXCEPT !.results = [error |-> Str(e)]]
Approved_AndCompletedAt(request, now) ==
    [request EXCEPT !.status = APPROVED, !.approved_at = now, !.completed_at = now]

\* get_pending_requests: if req.status == ResearchStatus.PROPOSED
IsProposed(req) == req.status = PROPOSED

\* approve_research: not (request.status != ResearchStatus.PROPOSED)
ApproveGuard(request) == request.status = PROPOSED

\* deny_research: not (request.status != ResearchStatus.PROPOSED)
DenyGuard(request) == request.status = PROPOSED

\* execute_approved_research: not (request.status != ResearchStatus.APPROVED)
ExecuteGuard(request) == request.status = APPROVED

\* request.status = APPROVED; request.approved_at = datetime.now()
Approved(request, now) == [request EXCEPT !.status = APPROVED, !.approved_at = now]

\* request.status = DENIED; if reason: request.results = {"denial_reason": reason}
Denied(request, reason) ==
    IF reason \notin {"None", ""}
    THEN [request EXCEPT !.status = DENIED, !.results = [denial_reason |-> reason]]
    ELSE [request EXCEPT !.status = DENIED]

\* request.status = IN_PROGRESS
InProgress(request) == [request EXCEPT !.status = IN_PROGRESS]

\* request.status = COMPLETED; request.completed_at = datetime.now(); request.results = research_results
Completed(request, research_results, now) ==
    [request EXCEPT !.status = COMPLETED, !.completed_at = now, !.results = research_results]

\* request.status = FAILED; request.results = {"error": str(e)}
Failed(request, e) == [request EXCEPT !.status = FAILED, !.results = [error |-> Str(e)]]

\* The dict execute_approved_research returns on success
SuccessReturn(request_id, research_results, request) ==
    [status |-> "success",
     request_id |-> request_id,
     results |-> research_results,
     execution_time |-> request.completed_at - request.approved_at]

\* The dict execute_approved_research returns from its except branch
FailedReturn(request_id, e) ==
    [status |-> "failed", request_id |-> request_id, error |-> Str(e)]

\* ResearchAgent._conduct_research once the POST has an answer: the dict it
\* returns, or the exception it raises.  now is the datetime.now() of "timestamp".
_conduct_research(query, response, now) ==
    IF response.raised
    THEN [raised |-> TRUE, exception |-> response.exception]
    ELSE IF response.status # 200
    THEN [raised |-> TRUE,
          exception |-> [type |-> "Exception",
                         message |-> <<"Research", "API", "error:">> \o response.text]]
    ELSE IF "choices" \notin DOMAIN response.json
    THEN [raised |-> TRUE, exception |-> [type |-> "KeyError", key |-> "choices"]]
    ELSE IF Len(response.json.choices) = 0
    THEN [raised |-> TRUE,
          exception |-> [type |-> "IndexError",
                         message |-> <<"list", "index", "out", "of", "range">>]]
    ELSE IF "message" \notin DOMAIN response.json.choices[1]
    THEN [raised |-> TRUE, exception |-> [type |-> "KeyError", key |-> "message"]]
    ELSE IF "content" \notin DOMAIN response.json.choices[1].message
    THEN [raised |-> TRUE, exception |-> [type |-> "KeyError", key |-> "content"]]
    ELSE [raised |-> FALSE,
          value |-> [research |-> response.json.choices[1].message.content,
                     model_used |-> research_model,
                     timestamp |-> now,
                     tokens_used |-> IF "usage" \in DOMAIN response.json
                                     THEN response.json.usage ELSE EmptyDict]]

----------------------------------------------------------------------------
\* What a handler step hands back to its caller.

Returned(op, request_id, value) ==
    [op |-> op, request_id |-> request_id, kind |-> "return", value |-> value]

Raised(op, request_id, exception) ==
    [op |-> op, request_id |-> request_id, kind |-> "raise", value |-> exception]

Suspended(op, request_id) ==
    [op |-> op, request_id |-> request_id, kind |-> "await", value |-> NoneDict]

ValueErrorNotFound(request_id) ==
    [type |-> "ValueError", message |-> <<"Request", request_id, "not", "found">>]

ValueErrorNotApproved(request_id, request) ==
    [type |-> "ValueError",
     message |-> <<"Request", request_id, "is", "not", "approved.", "Status:", request.status>>]

----------------------------------------------------------------------------
\* The registry and the remote-call counters as a handler step finds them, the
\* remote answer the step consumes and the argument it reads besides request_id,
\* by name (NoneDict for a step that has none).
Snapshot(response, argument) ==
    [pending_requests |-> pending_requests,
     remote_calls |-> remote_calls,
     awaiting |-> awaiting,
     ADVISOR_PROFILES |-> ADVISOR_PROFILES,
     response |-> response,
     argument |-> argument]

----------------------------------------------------------------------------
\* app.py: configuration, and the research endpoints around the ResearchAgent.

\* The values of the environment variable: unset, empty or a key.
ApiKeys == {"None", "", "sk-or-v1"}

\* bool(text) of an Optional[str]
Truthy(text) == text \notin {"None", ""}

\* research_agent = None; if OPENROUTER_API_KEY: research_agent = ResearchAgent(...)
research_agent == IF Truthy(OPENROUTER_API_KEY) THEN "ResearchAgent" ELSE "None"

\* The persona table the module starts with (two of its advisors).
InitialProfiles == <<"alex", "tony">>

\* No panel_discussion call is in progress; waiting holds the DELETE request
\* that has arrived and is not handled yet, with the number of completion
\* calls the panel had made when it arrived.
Idle(waiting) == [active |-> FALSE, waiting |-> waiting]

NoPanel == Idle({})

\* Mutant of CompleteSuspends: a completion client on an asynchronous HTTP library.
CompleteSuspends_AsyncClient == TRUE

\* OpenRouterClient.complete is a coroutine without an await in it: it calls
\* the blocking requests.post, so awaiting it never yields to the event loop.
CompleteSuspends == FALSE

\* The event loop is inside a handler that does not yield: no other handler runs.
Blocked == panel.active /\ ~CompleteSuspends

\* raise HTTPException(status_code=..., detail=...), as http_exception_handler answers it
HTTPException(status_code, detail) ==
    [type |-> "HTTPException", status_code |-> status_code, detail |-> detail]

\* datetime.isoformat()
isoformat(t) == [isoformat |-> t]

NotConfigured == HTTPException(503, <<"Research", "agent", "not", "configured">>)

NotFoundOrWrongState ==
    HTTPException(404, <<"Research", "request", "not", "found", "or", "not", "in",
                         "proposed", "state">>)

\* propose_research (endpoint): the answer to what the agent call returned or raised
propose_endpoint(result) ==
    IF result.kind = "raise"
    THEN HTTPException(500, Str(result.value))
    ELSE [request_id |-> result.value.id,
          status |-> result.value.status,
          refined_query |-> result.value.refined_query,
          cost_estimate |-> result.value.cost_estimate]

\* A variant of approve_endpoint that never looks at the workflow's answer.
approve_endpoint_Always(result) ==
    [status |-> "approved", request_id |-> result.request_id]

\* approve_research (endpoint)
approve_endpoint(result) ==
    IF result.value = False
    THEN NotFoundOrWrongState
    ELSE [status |-> "approved", request_id |-> result.request_id]

\* deny_research (endpoint)
deny_endpoint(result) ==
    IF result.value = False
    THEN NotFoundOrWrongState
    ELSE [status |-> "denied", request_id |-> result.request_id]

\* execute_research (endpoint): no answer while the agent call is suspended
execute_research(result) ==
    IF result.kind = "await" THEN NoneDict
    ELSE IF result.kind = "raise" /\ result.value.type = "ValueError"
    THEN HTTPException(400, Str(result.value))
    ELSE IF result.kind = "raise"
    THEN HTTPException(500, Str(result.value))
    ELSE result.value

\* [f(req) for req in requests]
Map(f(_), requests) == [i \in 1..Len(requests) |-> f(requests[i])]

\* get_pending_research: an entry of "pending"
PendingItem(req) ==
    [id |-> req.id,
     query |-> req.query,
     original_context |-> req.original_context,
     advisor_suggestions |-> req.advisor_suggestions,
     refined_query |-> req.refined_query,
     status |-> req.status,
     created_at |-> isoformat(req.created_at),
     cost_estimate |-> req.cost_estimate]

\* get_pending_research: an entry of "completed"
CompletedItem(req) ==
    [id |-> req.id,
     query |-> req.query,
     status |-> req.status,
     created_at |-> isoformat(req.created_at),
     completed_at |-> IF req.completed_at # None THEN isoformat(req.completed_at) ELSE NoneDict,
     results |-> req.results]

\* Mutant of IsFinished: the second list also takes the requests under way.
IsFinished_OrInProgress(req) == req.status \in {COMPLETED, FAILED, DENIED, IN_PROGRESS}

\* get_pending_research: if req.status in [COMPLETED, FAILED, DENIED]
IsFinished(req) == req.status \in {COMPLETED, FAILED, DENIED}

\* get_pending_research, with a research agent: result is what
\* get_pending_requests returned, all_requests the values of the registry
get_pending_research(result, all_requests) ==
    [pending |-> Map(PendingItem, result.value.list),
     completed |-> Map(CompletedItem, SelectSeq(all_requests, IsFinished))]

\* The handler step was not a call of the research agent.
NoCall == [op |-> "none", request_id |-> 0, kind |-> "none", value |-> NoneDict]

Init ==
    /\ OPENROUTER_API_KEY \in ApiKeys
    /\ ADVISOR_PROFILES = InitialProfiles
    /\ panel = NoPanel
    /\ http = NoneDict
    /\ pending_requests = << >>
    /\ clock = 0
    /\ awaiting = [i \in Ids |-> 0]
    /\ remote_calls = [i \in Ids |-> 0]
    /\ approve_true = [i \in Ids |-> 0]
    /\ deny_true = [i \in Ids |-> 0]
    /\ outcome = NoCall
    /\ before = Snapshot(NoneDict, NoneDict)

\* ResearchAgent.propose_research
propose_research(query, context, advisor_suggestions) ==
    /\ research_agent # "None"
    /\ ~Blocked
    /\ UNCHANGED board_vars
    /\ Len(pending_requests) < MaxRequests
    /\ before' = Snapshot(NoneDict, [advisor_suggestions |-> advisor_suggestions])
    /\ UNCHANGED <<awaiting, remote_calls, approve_true, deny_true>>
    /\ IF MissingKey(advisor_suggestions) # "None"
       THEN /\ outcome' = Raised("propose", uuid4,
                                  [type |-> "KeyError", key |-> MissingKey(advisor_suggestions)])
            /\ UNCHANGED <<pending_requests, clock>>
       ELSE \E now \in clock..MaxClock :
               LET request_id == uuid4
                   refined_query == _refine_query_with_suggestions(query, context, advisor_suggestions)
                   request == ResearchRequest(request_id, query, context, advisor_suggestions,
                                              refined_query, CostEstimate(refined_query), now)
               IN  /\ pending_requests' = SetItem(request_id, request)
                   /\ clock' = now
                   /\ outcome' = Returned("propose", request_id, request)
    /\ http' = propose_endpoint(outcome')

\* ResearchAgent.approve_research
approve_research(request_id) ==
    /\ research_agent # "None"
    /\ ~Blocked
    /\ UNCHANGED board_vars
    /\ before' = Snapshot(NoneDict, NoneDict)
    /\ UNCHANGED <<awaiting, remote_calls, deny_true>>
    /\ IF ~Known(request_id)
       THEN /\ outcome' = Returned("approve", request_id, False)
            /\ UNCHANGED <<pending_requests, clock, approve_true>>
       ELSE IF ~ApproveGuard(Get(request_id))
       THEN /\ outcome' = Returned("approve", request_id, False)
            /\ UNCHANGED <<pending_requests, clock, approve_true>>
       ELSE \E now \in clock..MaxClock :
               /\ pending_requests' = Mutate(request_id, Approved(Get(request_id), now))
               /\ clock' = now
               /\ approve_true' = [approve_true EXCEPT ![request_id] = @ + 1]
               /\ outcome' = Returned("approve", request_id, True)
    /\ http' = approve_endpoint(outcome')

\* ResearchAgent.deny_research.  The reason argument is first read by
\* "if reason:", after both checks, so it is drawn there.
deny_research(request_id) ==
    /\ research_agent # "None"
    /\ ~Blocked
    /\ UNCHANGED board_vars
    /\ UNCHANGED <<clock, awaiting, remote_calls, approve_true>>
    /\ IF ~Known(request_id)
       THEN /\ outcome' = Returned("deny", request_id, False)
            /\ before' = Snapshot(NoneDict, NoneDict)
            /\ UNCHANGED <<pending_requests, deny_true>>
       ELSE IF ~DenyGuard(Get(request_id))
       THEN /\ outcome' = Returned("deny", request_id, False)
            /\ before' = Snapshot(NoneDict, NoneDict)
            /\ UNCHANGED <<pending_requests, deny_true>>
       ELSE \E reason \in Reasons :
               /\ pending_requests' = Mutate(request_id, Denied(Get(request_id), reason))
               /\ deny_true' = [deny_true EXCEPT ![request_id] = @ + 1]
               /\ before' = Snapshot(NoneDict, [reason |-> reason])
               /\ outcome' = Returned("deny", request_id, True)
    /\ http' = deny_endpoint(outcome')

\* ResearchAgent.execute_approved_research, up to the await of the remote call
execute_approved_research(request_id) ==
    /\ research_agent # "None"
    /\ ~Blocked
    /\ UNCHANGED board_vars
    /\ before' = Snapshot(NoneDict, NoneDict)
    /\ UNCHANGED <<clock, approve_true, deny_true>>
    /\ IF ~Known(request_id)
       THEN /\ outcome' = Raised("execute", request_id, ValueErrorNotFound(request_id))
            /\ UNCHANGED <<pending_requests, awaiting, remote_calls>>
       ELSE IF ~ExecuteGuard(Get(request_id))
       THEN /\ outcome' = Raised("execute", request_id,
                                  ValueErrorNotApproved(request_id, Get(request_id)))
            /\ UNCHANGED <<pending_requests, awaiting, remote_calls>>
       ELSE /\ pending_requests' = Mutate(request_id, InProgress(Get(request_id)))
            /\ awaiting' = [awaiting EXCEPT ![request_id] = @ + 1]
            /\ remote_calls' = [remote_calls EXCEPT ![request_id] = @ + 1]
            /\ outcome' = Suspended("execute", request_id)
    /\ http' = execute_research(outcome')

\* ResearchAgent.execute_approved_research, from the remote call's answer to the
\* return.  The try block's last statement subtracts approved_at from
\* completed_at, which raises TypeError into the except branch when approved_at
\* is None.
execute_resumed(request_id, response) ==
    /\ research_agent # "None"
    /\ ~Blocked
    /\ UNCHANGED board_vars
    /\ awaiting[request_id] > 0
    /\ awaiting' = [awaiting EXCEPT ![request_id] = @ - 1]
    /\ before' = Snapshot(response, NoneDict)
    /\ UNCHANGED <<remote_calls, approve_true, deny_true>>
    /\ IF _conduct_research(Get(request_id).refined_query, response, clock).raised
       THEN LET e == _conduct_research(Get(request_id).refined_query, response, clock).exception
            IN  /\ pending_requests' = Mutate(request_id, Failed(Get(request_id), e))
                /\ clock' = clock
                /\ outcome' = Returned("execute", request_id, FailedReturn(request_id, e))
       ELSE \E stamp \in clock..MaxClock : \E now \in stamp..MaxClock :
               LET research_results ==
                       _conduct_research(Get(request_id).refined_query, response, stamp).value
                   request == Completed(Get(request_id), research_results, now)
                   e == [type |-> "TypeError",
                         message |-> <<"unsupported", "operand", "type(s)", "for", "-:",
                                       "'datetime.datetime'", "and", "'NoneType'">>]
               IN  /\ clock' = now
                   /\ IF request.approved_at = None \/ request.completed_at = None
                      THEN /\ pending_requests' = Mutate(request_id, Failed(request, e))
                           /\ outcome' = Returned("execute", request_id,
                                                  FailedReturn(request_id, e))
                      ELSE /\ pending_requests' = Mutate(request_id, request)
                           /\ outcome' = Returned("execute", request_id,
                                                  SuccessReturn(request_id, research_results, request))
    /\ http' = execute_research(outcome')

\* ResearchAgent.get_pending_requests
get_pending_requests ==
    /\ research_agent # "None"
    /\ ~Blocked
    /\ UNCHANGED board_vars
    /\ before' = Snapshot(NoneDict, NoneDict)
    /\ outcome' = Returned("get_pending", 0, List(SelectSeq(pending_requests, IsProposed)))
    /\ UNCHANGED <<pending_requests, clock, awaiting, remote_calls, approve_true, deny_true>>
    /\ http' = get_pending_research(outcome', pending_requests)

----------------------------------------------------------------------------
\* app.py: the completion client, chat, panel and the admin endpoints.

\* The longest advisors list a panel request carries.
MaxPanel == 2

\* Advisor ids: the two of the table, and one the table never holds.
AdvisorIds == {"alex", "tony"}
ghost == "ghost"

\* profile["name"]
ProfileName(advisor_id) ==
    IF advisor_id = "alex" THEN <<"Alex", "Hormozi">> ELSE <<"Tony", "Robbins">>

Topics == {<<"pricing">>}

\* What the remote endpoint can answer to one requests.post.
empty_choices == [raised |-> FALSE, status |-> 200, json |-> [choices |-> << >>]]
no_content == [raised |-> FALSE, status |-> 200, json |-> [choices |-> <<[message |-> [role |-> "assistant"]]>>]]
Answers ==
    { [raised |-> FALSE, status |-> 200, json |-> [choices |-> choices, usage |-> usage]],
      [raised |-> FALSE, status |-> 200, json |-> [error |-> <<"overloaded">>]],
      empty_choices,
      no_content,
      [raised |-> FALSE, status |-> 500, text |-> <<"upstream", "down">>],
      [raised |-> TRUE, exception |-> [type |-> "ConnectionError",
                                        message |-> <<"Connection", "refused">>]] }

\* PanelRequest.advisors: None, or a list of at most MaxPanel ids
RECURSIVE ListsUpTo(_, _)
ListsUpTo(ids, n) ==
    IF n = 0 THEN {<< >>}
    ELSE ListsUpTo(ids, n - 1)
            \cup {Append(l, id) : l \in {m \in ListsUpTo(ids, n - 1) : Len(m) = n - 1}, id \in ids}

PanelAdvisors ==
    {[given |-> FALSE, list |-> << >>]}
       \cup {[given |-> TRUE, list |-> l] : l \in ListsUpTo(AdvisorIds \cup {ghost}, MaxPanel)}

\* advisor_id in ADVISOR_PROFILES
HasProfile(profiles, advisor_id) == \E i \in 1..Len(profiles) : profiles[i] = advisor_id

\* del ADVISOR_PROFILES[advisor_id]
DelItem(profiles, advisor_id) == SelectSeq(profiles, LAMBDA id : id # advisor_id)

\* A variant of complete that posts before it looks at the key.
complete_PostsFirst(api_key, answer) ==
    [raised |-> TRUE, posted |-> 1,
     exception |-> HTTPException(500, <<"OpenRouter", "API", "key", "not", "configured.">>)]

\* OpenRouterClient.complete once requests.post has its answer: what it returns
\* or raises, and the number of requests it posted.
complete(api_key, answer) ==
    IF ~Truthy(api_key)
    THEN [raised |-> TRUE, posted |-> 0,
          exception |-> HTTPException(500, <<"OpenRouter", "API", "key", "not", "configured.">>)]
    ELSE IF answer.raised
    THEN [raised |-> TRUE, posted |-> 1,
          exception |-> HTTPException(500, <<"AI", "service", "error:">> \o Str(answer.exception))]
    ELSE IF answer.status >= 400
    THEN [raised |-> TRUE, posted |-> 1,
          exception |-> HTTPException(500, <<"AI", "service", "error:", "Server", "Error">>)]
    ELSE IF "choices" \notin DOMAIN answer.json
    THEN [raised |-> TRUE, posted |-> 1,
          exception |-> HTTPException(500, <<"Invalid", "AI", "service", "response">>)]
    ELSE IF Len(answer.json.choices) = 0
    THEN [raised |-> TRUE, posted |-> 1,
          exception |-> [type |-> "IndexError",
                         message |-> <<"list", "index", "out", "of", "range">>]]
    ELSE IF "message" \notin DOMAIN answer.json.choices[1]
    THEN [raised |-> TRUE, posted |-> 1,
          exception |-> HTTPException(500, <<"Invalid", "AI", "service", "response">>)]
    ELSE IF "content" \notin DOMAIN answer.json.choices[1].message
    THEN [raised |-> TRUE, posted |-> 1,
          exception |-> HTTPException(500, <<"Invalid", "AI", "service", "response">>)]
    ELSE [raised |-> FALSE, posted |-> 1, value |-> answer.json.choices[1].message.content]

\* What a handler step of app.py hands back, with the requests it posted.
Handled(op, kind, value, posted) ==
    [op |-> op, request_id |-> 0, kind |-> kind, value |-> value, posted |-> posted]

\* An exception no handler catches: the framework answers 500.
InternalServerError == [status_code |-> 500, detail |-> <<"Internal", "Server", "Error">>]

\* The answer a step consumed: none when nothing was posted.
Consumed(result, answer) == IF result.posted > 0 THEN answer ELSE NoneDict

\* The research endpoints of app.py without a research agent: "if not
\* research_agent" answers before anything else is done.
research_unavailable(endpoint) ==
    /\ research_agent = "None"
    /\ ~Blocked
    /\ http' = IF endpoint = "get_pending_research"
               THEN [pending |-> << >>, completed |-> << >>]
               ELSE NotConfigured
    /\ outcome' = NoCall
    /\ before' = Snapshot(NoneDict, [endpoint |-> endpoint])
    /\ UNCHANGED agent_vars
    /\ UNCHANGED board_vars

ResearchEndpoints ==
    {"propose_research", "approve_research", "deny_research", "execute_research",
     "get_pending_research"}

----------------------------------------------------------------------------
\* app.py: chat, panel and the admin endpoints.

\* HTTPException(404, f"Advisor '{advisor_id}' not found")
AdvisorNotFound(advisor_id) == HTTPException(404, <<"Advisor", advisor_id, "not", "found">>)

\* POST /chat/{advisor_id}
chat_with_advisor(advisor_id, answer) ==
    /\ ~Blocked
    /\ IF ~HasProfile(ADVISOR_PROFILES, advisor_id)
       THEN /\ outcome' = Handled("chat", "raise", AdvisorNotFound(advisor_id), 0)
            /\ before' = Snapshot(NoneDict, [advisor_id |-> advisor_id])
            /\ clock' = clock
       ELSE LET result == complete(OPENROUTER_API_KEY, answer) IN
            /\ before' = Snapshot(Consumed(result, answer), [advisor_id |-> advisor_id])
            /\ IF result.raised
               THEN /\ outcome' = Handled("chat", "raise",
                                          HTTPException(500, <<"Failed", "to", "generate", "response">>)
                                             @@ [context |-> result.exception],
                                          result.posted)
                    /\ clock' = clock
               ELSE \E now \in clock..MaxClock :
                       /\ clock' = clock
                       /\ outcome' = Handled("chat", "return",
                                             [response |-> result.value, advisor |-> advisor_id,
                                              timestamp |-> isoformat(now)],
                                             result.posted)
    /\ http' = IF "context" \in DOMAIN outcome'.value
               THEN HTTPException(outcome'.value.status_code, outcome'.value.detail)
               ELSE outcome'.value
    /\ UNCHANGED <<pending_requests, awaiting, remote_calls, approve_true, deny_true>>
    /\ UNCHANGED board_vars

\* The first advisor of the selection without a profile, 0 when all have one.
FirstUnknown(profiles, selected) ==
    IF \A i \in 1..Len(selected) : HasProfile(profiles, selected[i]) THEN 0
    ELSE CHOOSE i \in 1..Len(selected) :
            /\ ~HasProfile(profiles, selected[i])
            /\ \A j \in 1..(i - 1) : HasProfile(profiles, selected[j])

\* A variant of SelectedAdvisors that takes an empty list as a selection.
SelectedAdvisors_AsGiven(advisors, profiles) ==
    IF advisors.given THEN advisors.list ELSE profiles

\* request.advisors or list(ADVISOR_PROFILES.keys())
SelectedAdvisors(advisors, profiles) ==
    IF advisors.given /\ advisors.list # << >> THEN advisors.list ELSE profiles

\* return {"topic": ..., "responses": responses, "timestamp": ...}, with the
\* selection the call worked on and the completion calls it made.
PanelReturn(topic, selected, responses, calls, posted, now) ==
    Handled("panel", "return",
            [topic |-> topic, responses |-> responses, timestamp |-> isoformat(now)], posted)
       @@ [selected |-> selected, calls |-> calls]

\* POST /api/panel up to its first completion call: the selection and its
\* validation.
panel_discussion(topic, advisors) ==
    /\ ~Blocked
    /\ ~panel.active
    /\ before' = Snapshot(NoneDict, [topic |-> topic, advisors |-> advisors])
    /\ LET selected == SelectedAdvisors(advisors, ADVISOR_PROFILES)
           unknown == FirstUnknown(ADVISOR_PROFILES, selected)
       IN  IF unknown # 0
           THEN /\ outcome' = Handled("panel", "raise", AdvisorNotFound(selected[unknown]), 0)
                                  @@ [selected |-> selected, calls |-> << >>]
                /\ http' = outcome'.value
                /\ panel' = panel
                /\ clock' = clock
           ELSE IF selected = << >>
           THEN \E now \in clock..MaxClock :
                   /\ clock' = clock
                   /\ outcome' = PanelReturn(topic, selected, << >>, << >>, 0, now)
                   /\ http' = outcome'.value
                   /\ panel' = panel
           ELSE /\ panel' = [active |-> TRUE, waiting |-> panel.waiting, topic |-> topic,
                             selected |-> selected, i |-> 1, responses |-> << >>,
                             calls |-> << >>]
                /\ outcome' = Handled("panel", "running", NoneDict, 0)
                                  @@ [selected |-> selected, calls |-> << >>]
                /\ http' = http
                /\ clock' = clock
    /\ UNCHANGED <<pending_requests, awaiting, remote_calls, approve_true, deny_true>>
    /\ UNCHANGED <<OPENROUTER_API_KEY, ADVISOR_PROFILES>>

\* One iteration of the loop over selected_advisors, and the return after the
\* last one.
panel_round(answer) ==
    /\ panel.active
    /\ LET advisor_id == panel.selected[panel.i] IN
       IF ~HasProfile(ADVISOR_PROFILES, advisor_id)
       THEN /\ before' = Snapshot(NoneDict, [advisor_id |-> advisor_id])
            /\ outcome' = Handled("panel", "raise", [type |-> "KeyError", key |-> advisor_id], 0)
                              @@ [selected |-> panel.selected, calls |-> panel.calls]
            /\ http' = InternalServerError
            /\ panel' = Idle(panel.waiting)
            /\ clock' = clock
       ELSE LET result == complete(OPENROUTER_API_KEY, answer)
                responses == IF result.raised THEN panel.responses
                             ELSE Append(panel.responses,
                                         [advisor |-> advisor_id, name |-> ProfileName(advisor_id),
                                          response |-> result.value, round |-> 1])
                calls == Append(panel.calls, [advisor |-> advisor_id,
                                              succeeded |-> ~result.raised,
                                              posted |-> result.posted])
            IN  /\ before' = Snapshot(Consumed(result, answer), [advisor_id |-> advisor_id])
                /\ IF panel.i = Len(panel.selected)
                   THEN \E now \in clock..MaxClock :
                           /\ clock' = clock
                           /\ outcome' = PanelReturn(panel.topic, panel.selected, responses,
                                                     calls, result.posted, now)
                           /\ http' = outcome'.value
                           /\ panel' = Idle(panel.waiting)
                   ELSE /\ panel' = [panel EXCEPT !.i = @ + 1, !.responses = responses,
                                                  !.calls = calls]
                        /\ outcome' = Handled("panel", "running",
                                              IF result.raised THEN [logged |-> result.exception]
                                              ELSE NoneDict,
                                              result.posted)
                                          @@ [selected |-> panel.selected, calls |-> calls]
                        /\ http' = http
                        /\ clock' = clock
    /\ UNCHANGED <<pending_requests, awaiting, remote_calls, approve_true, deny_true>>
    /\ UNCHANGED <<OPENROUTER_API_KEY, ADVISOR_PROFILES>>

\* advisor_data of POST /api/admin/advisors: complete, or without a personality
AdvisorData ==
    {[id |-> id, name |-> ProfileName(id), description |-> <<"advisor">>,
      personality |-> <<"You", "are", id>>] : id \in AdvisorIds}
       \cup {[id |-> "alex", name |-> ProfileName("alex"), description |-> <<"advisor">>]}

required_fields == <<"id", "name", "description", "personality">>

\* POST /api/admin/advisors
create_advisor(advisor_data) ==
    /\ ~Blocked
    /\ before' = Snapshot(NoneDict, advisor_data)
    /\ LET missing == {i \in 1..Len(required_fields) : required_fields[i] \notin DOMAIN advisor_data}
       IN  IF missing # {}
           THEN /\ outcome' = Handled("create_advisor", "raise",
                                      HTTPException(400, <<"Missing", "required", "field:",
                                                           required_fields[CHOOSE i \in missing :
                                                               \A j \in missing : i <= j]>>), 0)
                /\ ADVISOR_PROFILES' = ADVISOR_PROFILES
           ELSE IF HasProfile(ADVISOR_PROFILES, advisor_data.id)
           THEN /\ outcome' = Handled("create_advisor", "raise",
                                      HTTPException(409, <<"Advisor", advisor_data.id,
                                                           "already", "exists">>), 0)
                /\ ADVISOR_PROFILES' = ADVISOR_PROFILES
           ELSE /\ outcome' = Handled("create_advisor", "return",
                                      [message |-> <<"Advisor", advisor_data.id, "created",
                                                     "successfully">>], 0)
                /\ ADVISOR_PROFILES' = Append(ADVISOR_PROFILES, advisor_data.id)
    /\ http' = outcome'.value
    /\ UNCHANGED agent_vars
    /\ UNCHANGED <<OPENROUTER_API_KEY, panel>>

\* DELETE /api/admin/advisors/{advisor_id}
delete_advisor(advisor_id) ==
    /\ ~Blocked
    /\ before' = Snapshot(NoneDict, [advisor_id |-> advisor_id])
    /\ IF ~HasProfile(ADVISOR_PROFILES, advisor_id)
       THEN /\ outcome' = Handled("delete_advisor", "raise", AdvisorNotFound(advisor_id), 0)
            /\ ADVISOR_PROFILES' = ADVISOR_PROFILES
       ELSE /\ outcome' = Handled("delete_advisor", "return",
                                  [message |-> <<"Advisor", advisor_id, "deleted",
                                                 "successfully">>], 0)
            /\ ADVISOR_PROFILES' = DelItem(ADVISOR_PROFILES, advisor_id)
    /\ http' = outcome'.value
    /\ panel' = [panel EXCEPT !.waiting = {w \in @ : w.advisor_id # advisor_id}]
    /\ UNCHANGED agent_vars
    /\ UNCHANGED OPENROUTER_API_KEY

\* A DELETE /api/admin/advisors/{advisor_id} request arrives while the event
\* loop is inside panel_discussion: it waits until the loop is free.
delete_waits(advisor_id) ==
    /\ Blocked
    /\ panel.waiting = {}
    /\ panel' = [panel EXCEPT !.waiting = @ \cup {[advisor_id |-> advisor_id,
                                                   calls |-> Len(panel.calls)]}]
    /\ UNCHANGED <<outcome, before, http>>
    /\ UNCHANGED agent_vars
    /\ UNCHANGED <<OPENROUTER_API_KEY, ADVISOR_PROFILES>>

\* The board: every handler that talks to the completion client, the admin
\* endpoints that change the advisor table, and the research endpoints of a
\* server without a research agent.
BoardNext ==
    \/ \E advisor_id \in AdvisorIds \cup {ghost}, answer \in Answers :
          chat_with_advisor(advisor_id, answer)
    \/ \E topic \in Topics, advisors \in PanelAdvisors : panel_discussion(topic, advisors)
    \/ \E answer \in Answers : panel_round(answer)
    \/ \E advisor_data \in AdvisorData : create_advisor(advisor_data)
    \/ \E advisor_id \in AdvisorIds \cup {ghost} : delete_advisor(advisor_id)
    \/ \E advisor_id \in AdvisorIds : delete_waits(advisor_id)
    \/ \E endpoint \in ResearchEndpoints : research_unavailable(endpoint)

BoardSpec == Init /\ [][BoardNext]_vars

----------------------------------------------------------------------------
\* ResearchAgent._refine_query_with_suggestions on its own.

\* The longest suggestion list the function is applied to.
MaxSuggestions == 2

\* Suggestion entries: two texts, one of them from two advisors, and the two
\* entries that lack a key.
tony == [advisor |-> "tony", suggestion |-> <<"check", "CAC", "payback">>]
SuggestionEntries == {alex, seth, tony, no_suggestion, no_advisor}

RefineQueries == Queries \cup {<<"pricing", "of", "annual", "plans">>}
RefineContexts == Contexts \cup {<<"retail">>}

\* The arguments of one call
RefineArguments ==
    {[query |-> query, context |-> context, suggestions |-> suggestions] :
        query \in RefineQueries, context \in RefineContexts,
        suggestions \in ListsUpTo(SuggestionEntries, MaxSuggestions)}

RefineInit ==
    /\ OPENROUTER_API_KEY \in ApiKeys
    /\ ADVISOR_PROFILES = InitialProfiles
    /\ panel = NoPanel
    /\ http = NoneDict
    /\ pending_requests = << >>
    /\ clock = 0
    /\ awaiting = [i \in Ids |-> 0]
    /\ remote_calls = [i \in Ids |-> 0]
    /\ approve_true = [i \in Ids |-> 0]
    /\ deny_true = [i \in Ids |-> 0]
    /\ outcome = NoCall
    /\ \E argument \in RefineArguments : before = Snapshot(NoneDict, argument)

\* await self._refine_query_with_suggestions(query, context, suggestions)
refine ==
    /\ outcome = NoCall
    /\ LET argument == before.argument
           key == MissingKey(argument.suggestions)
       IN  outcome' = IF key # "None"
                      THEN Raised("_refine", 0, [type |-> "KeyError", key |-> key])
                      ELSE Returned("_refine", 0,
                                    [refined |-> _refine_query_with_suggestions(
                                                     argument.query, argument.context,
                                                     argument.suggestions)])
    /\ UNCHANGED <<before, http>>
    /\ UNCHANGED agent_vars
    /\ UNCHANGED board_vars

RefineNext == refine

RefineSpec == RefineInit /\ [][RefineNext]_vars

Next ==
    \/ \E query \in Queries, context \in Contexts, advisor_suggestions \in SuggestionLists :
          propose_research(query, context, advisor_suggestions)
    \/ \E request_id \in Ids : approve_research(request_id)
    \/ \E request_id \in Ids : deny_research(request_id)
    \/ \E request_id \in Ids : execute_approved_research(request_id)
    \/ \E request_id \in Ids, response \in Responses : execute_resumed(request_id, response)
    \/ get_pending_requests
    \/ \E endpoint \in ResearchEndpoints : research_unavailable(endpoint)

Spec == Init /\ [][Next]_vars

\* The event loop resumes a coroutine once the future it awaits is done: if
\* every remote call eventually returns or raises, every suspended
\* execute_approved_research eventually runs on.  Running on always takes the
\* coroutine off the awaiting count, so the step is never a stuttering one.
RemoteCallsAnswer ==
    \A request_id \in Ids :
        WF_awaiting(\E response \in Responses : execute_resumed(request_id, response))

LiveSpec == Init /\ [][Next]_vars /\ RemoteCallsAnswer

----------------------------------------------------------------------------
\* The state the most recent handler step started from.

BeforeKeys == {before.pending_requests[i].id : i \in 1..Len(before.pending_requests)}

BeforeGet(request_id) ==
    before.pending_requests[CHOOSE i \in 1..Len(before.pending_requests) :
                                before.pending_requests[i].id = request_id]

Terminal == {COMPLETED, DENIED, FAILED}

Edges == { <<PROPOSED, APPROVED>>, <<PROPOSED, DENIED>>, <<APPROVED, IN_PROGRESS>>,
           <<IN_PROGRESS, COMPLETED>>, <<IN_PROGRESS, FAILED>> }

\* The most recent step was the first part of an execute call (up to the await).
ExecuteCalled == outcome.op = "execute" /\ outcome.kind \in {"raise", "await"}

\* The most recent step was the second part of an execute call, run on the remote answer.
ExecuteResumed == outcome.op = "execute" /\ before.response # NoneDict

\* The remote answer carries a research text: status 200 and a body with
\* choices[0].message.content.
HasPayload(response) ==
    /\ ~response.raised
    /\ response.status = 200
    /\ "choices" \in DOMAIN response.json
    /\ Len(response.json.choices) > 0
    /\ "message" \in DOMAIN response.json.choices[1]
    /\ "content" \in DOMAIN response.json.choices[1].message

\* The step left the registry and the remote-call counters as it found them.
NothingChanged ==
    /\ pending_requests = before.pending_requests
    /\ remote_calls = before.remote_calls
    /\ awaiting = before.awaiting

----------------------------------------------------------------------------
\* C1: a remote research call is issued for a request only if approve_research
\* returned True for its id before; an unknown, a proposed or a denied request
\* has no remote call, and the step that issues a call finds the request approved.
C1_ApprovalGate ==
    \A request_id \in Ids :
        /\ remote_calls[request_id] > 0 => approve_true[request_id] > 0
        /\ ~Known(request_id) => remote_calls[request_id] = 0
        /\ Known(request_id) /\ Get(request_id).status \in {PROPOSED, DENIED}
              => remote_calls[request_id] = 0
        /\ remote_calls[request_id] > before.remote_calls[request_id]
              => /\ request_id \in BeforeKeys
                 /\ BeforeGet(request_id).status = APPROVED

\* A remote call has been issued, for a request that was approved.
C1_Witness ==
    \E request_id \in Ids : remote_calls[request_id] = 1 /\ approve_true[request_id] = 1

\* C2: every change of a request's status in one step is an edge of the
\* transition table, and a request enters the registry in status proposed.
C2_TransitionTable ==
    \A request_id \in Keys :
        IF request_id \in BeforeKeys
        THEN \/ Get(request_id).status = BeforeGet(request_id).status
             \/ <<BeforeGet(request_id).status, Get(request_id).status>> \in Edges
        ELSE Get(request_id).status = PROPOSED

\* The last step moved a request from in_progress to failed while another
\* request, created after it, is still proposed.
C2_Witness ==
    \E a, b \in Keys :
        /\ a \in BeforeKeys /\ BeforeGet(a).status = IN_PROGRESS /\ Get(a).status = FAILED
        /\ Get(b).status = PROPOSED

\* C3: a request that is completed, denied or failed when a step starts has the
\* same status, results, approved_at and completed_at when the step ends, and
\* no remote call is issued for it: a failed request is never executed again.
C3_TerminalIsFinal ==
    \A request_id \in BeforeKeys :
        BeforeGet(request_id).status \in Terminal
           => /\ Known(request_id)
              /\ Get(request_id).status = BeforeGet(request_id).status
              /\ Get(request_id).results = BeforeGet(request_id).results
              /\ Get(request_id).approved_at = BeforeGet(request_id).approved_at
              /\ Get(request_id).completed_at = BeforeGet(request_id).completed_at
              /\ remote_calls[request_id] = before.remote_calls[request_id]
              /\ awaiting[request_id] = 0

\* execute_approved_research was just called on a failed request.
C3_Witness ==
    /\ ExecuteCalled
    /\ outcome.request_id \in BeforeKeys
    /\ BeforeGet(outcome.request_id).status = FAILED

\* C4: approve_research and deny_research on an unknown id, or on a request
\* that is not proposed, return False without raising and change nothing.
C4_RejectedIsNoOp ==
    (/\ outcome.op \in {"approve", "deny"}
     /\ \/ outcome.request_id \notin BeforeKeys
        \/ BeforeGet(outcome.request_id).status # PROPOSED)
       => /\ outcome.kind = "return"
          /\ outcome.value = False
          /\ NothingChanged

\* deny_research was just called on an approved request.
C4_Witness ==
    /\ outcome.op = "deny"
    /\ outcome.request_id \in BeforeKeys
    /\ BeforeGet(outcome.request_id).status = APPROVED

\* C5: per id at most one approve_research or deny_research call ever returns
\* True: a call returns True exactly when it finds the request proposed, the
\* request is proposed exactly as long as no call has won, and afterwards the
\* status is the winner's (denied, or approved and what follows it).
C5_OneWinner ==
    /\ \A request_id \in Ids :
          /\ approve_true[request_id] + deny_true[request_id] <= 1
          /\ ~Known(request_id) => approve_true[request_id] + deny_true[request_id] = 0
          /\ Known(request_id) =>
                /\ Get(request_id).status = PROPOSED
                      <=> approve_true[request_id] + deny_true[request_id] = 0
                /\ Get(request_id).status = DENIED <=> deny_true[request_id] = 1
                /\ Get(request_id).status \in {APPROVED, IN_PROGRESS, COMPLETED, FAILED}
                      <=> approve_true[request_id] = 1
    /\ outcome.op \in {"approve", "deny"} =>
          /\ outcome.value = True
                <=> /\ outcome.request_id \in BeforeKeys
                    /\ BeforeGet(outcome.request_id).status = PROPOSED
          /\ outcome.value = True =>
                Get(outcome.request_id).status =
                    (IF outcome.op = "approve" THEN APPROVED ELSE DENIED)

\* approve_research just lost to an earlier deny_research on the same request.
C5_Witness ==
    /\ outcome.op = "approve"
    /\ outcome.value = False
    /\ deny_true[outcome.request_id] = 1
    /\ Get(outcome.request_id).status = DENIED

\* C6: execute_approved_research on a registered request that is not approved
\* raises ValueError naming the current status (it does not return the
\* downstream-failure dict), issues no remote call and changes nothing.
C6_ExecuteNotApproved ==
    (/\ ExecuteCalled
     /\ outcome.request_id \in BeforeKeys
     /\ BeforeGet(outcome.request_id).status # APPROVED)
       => /\ outcome.kind = "raise"
          /\ outcome.value.type = "ValueError"
          /\ outcome.value.message =
                <<"Request", outcome.request_id, "is", "not", "approved.", "Status:",
                  BeforeGet(outcome.request_id).status>>
          /\ NothingChanged

\* execute_approved_research was just called on a request that was never approved.
C6_Witness ==
    /\ ExecuteCalled
    /\ outcome.request_id \in BeforeKeys
    /\ BeforeGet(outcome.request_id).status = PROPOSED
    /\ Get(outcome.request_id).status = PROPOSED

\* C7: execute_approved_research on an id that is not in the registry raises
\* ValueError "not found", issues no remote call, adds no entry and changes no request.
C7_ExecuteNotFound ==
    (outcome.op = "execute" /\ outcome.request_id \notin BeforeKeys)
       => /\ outcome.kind = "raise"
          /\ outcome.value.type = "ValueError"
          /\ outcome.value.message = <<"Request", outcome.request_id, "not", "found">>
          /\ NothingChanged

\* execute_approved_research was just called on an unknown id while the
\* registry holds a request.
C7_Witness ==
    /\ outcome.op = "execute"
    /\ outcome.request_id \notin BeforeKeys
    /\ Len(before.pending_requests) > 0

\* C8: when the remote call of an execution answers with a research text, the
\* request ends completed, its results are the returned payload with the text
\* verbatim, completed_at is set and not before approved_at, and the call
\* returns status "success" with the same request_id and results.
C8_SuccessPath ==
    (ExecuteResumed /\ HasPayload(before.response))
       => LET request == Get(outcome.request_id)
          IN  /\ BeforeGet(outcome.request_id).status = IN_PROGRESS
              /\ request.status = COMPLETED
              /\ DOMAIN request.results = {"research", "model_used", "timestamp", "tokens_used"}
              /\ request.results.research = before.response.json.choices[1].message.content
              /\ request.completed_at # None
              /\ request.approved_at # None
              /\ request.completed_at >= request.approved_at
              /\ outcome.kind = "return"
              /\ outcome.value.status = "success"
              /\ outcome.value.request_id = outcome.request_id
              /\ outcome.value.results = request.results

\* An execution just succeeded, strictly later than its approval.
C8_Witness ==
    /\ ExecuteResumed
    /\ HasPayload(before.response)
    /\ Get(outcome.request_id).completed_at > Get(outcome.request_id).approved_at

\* C9: when the remote call of an execution fails (transport error, non-200
\* status, malformed body), the call returns rather than raises, the request
\* ends failed with results {"error": description}, completed_at stays None,
\* and the call returns {status: "failed", request_id, error} with the same
\* description.
C9_FailurePath ==
    (ExecuteResumed /\ ~HasPayload(before.response))
       => LET request == Get(outcome.request_id)
          IN  /\ BeforeGet(outcome.request_id).status = IN_PROGRESS
              /\ outcome.kind = "return"
              /\ request.status = FAILED
              /\ DOMAIN request.results = {"error"}
              /\ request.results.error =
                    (IF before.response.raised THEN before.response.exception.message
                     ELSE IF before.response.status # 200
                     THEN <<"Research", "API", "error:">> \o before.response.text
                     ELSE <<"'", "choices", "'">>)
              /\ request.completed_at = None
              /\ outcome.value =
                    [status |-> "failed", request_id |-> outcome.request_id,
                     error |-> request.results.error]

\* An execution just failed on a non-200 answer.
C9_Witness ==
    /\ ExecuteResumed
    /\ ~before.response.raised
    /\ before.response.status = 500
    /\ Get(outcome.request_id).status = FAILED

\* C10: an accepted execution issues exactly one remote call; an execute call
\* made while one is in flight is rejected with status in_progress; so a
\* request has at most one remote call and at most one in flight over its
\* lifetime, and exactly one once it is in_progress, completed or failed.
C10_SingleRemoteCall ==
    /\ \A request_id \in Ids :
          /\ remote_calls[request_id] <= 1
          /\ awaiting[request_id] <= 1
          /\ Known(request_id) /\ Get(request_id).status \in {IN_PROGRESS, COMPLETED, FAILED}
                => remote_calls[request_id] = 1
          /\ Known(request_id) => (awaiting[request_id] = 1 <=> Get(request_id).status = IN_PROGRESS)
    /\ (ExecuteCalled /\ outcome.kind = "await")
          => /\ remote_calls[outcome.request_id] = before.remote_calls[outcome.request_id] + 1
             /\ \A request_id \in Ids \ {outcome.request_id} :
                   remote_calls[request_id] = before.remote_calls[request_id]
    /\ (ExecuteCalled /\ before.awaiting[outcome.request_id] > 0)
          => /\ outcome.kind = "raise"
             /\ BeforeGet(outcome.request_id).status = IN_PROGRESS
             /\ remote_calls = before.remote_calls

\* A second execute call was just rejected while the first one's remote call is in flight.
C10_Witness ==
    /\ ExecuteCalled
    /\ outcome.kind = "raise"
    /\ before.awaiting[outcome.request_id] = 1
    /\ awaiting[outcome.request_id] = 1

\* The position of a request in the registry the most recent step started from.
BeforeIndex(request_id) ==
    CHOOSE i \in 1..Len(before.pending_requests) : before.pending_requests[i].id = request_id

\* C11: get_pending_requests returns exactly the registered requests whose
\* status is proposed, each once and as the registry holds it, in registry
\* insertion order; it changes nothing, so a second call made right after it
\* returns the same sequence.
C11_PendingList ==
    outcome.op = "get_pending"
       => LET value == outcome.value.list
          IN  /\ outcome.kind = "return"
              /\ \A i \in 1..Len(value) :
                    /\ value[i].status = PROPOSED
                    /\ value[i].id \in BeforeKeys
                    /\ value[i] = BeforeGet(value[i].id)
              /\ \A request_id \in BeforeKeys :
                    BeforeGet(request_id).status = PROPOSED
                       => \E i \in 1..Len(value) : value[i].id = request_id
              /\ \A i, j \in 1..Len(value) :
                    i < j => BeforeIndex(value[i].id) < BeforeIndex(value[j].id)
              /\ NothingChanged
              /\ value = SelectSeq(pending_requests, LAMBDA req : req.status = PROPOSED)

\* get_pending_requests just returned the second of two registered requests
\* only, the first one being no longer proposed.
C11_Witness ==
    /\ outcome.op = "get_pending"
    /\ Len(before.pending_requests) = 2
    /\ before.pending_requests[1].status = APPROVED
    /\ Len(outcome.value.list) = 1
    /\ outcome.value.list[1] = before.pending_requests[2]

\* The suggestions argument is well formed: every entry has both keys the
\* handler reads.
WellFormed(suggestions) ==
    \A i \in 1..Len(suggestions) : {"advisor", "suggestion"} \subseteq DOMAIN suggestions[i]

\* C12: propose_research on well-formed suggestions returns rather than raises;
\* it appends exactly one request, under an id that was not registered before,
\* in status proposed with approved_at, completed_at and results None, returns
\* that request, and leaves every earlier request and the remote-call counters
\* as they were.
C12_ProposeSucceeds ==
    (outcome.op = "propose" /\ WellFormed(before.argument.advisor_suggestions))
       => LET n == Len(before.pending_requests)
          IN  /\ outcome.kind = "return"
              /\ outcome.request_id \notin BeforeKeys
              /\ Len(pending_requests) = n + 1
              /\ \A i \in 1..n : pending_requests[i] = before.pending_requests[i]
              /\ pending_requests[n + 1] = outcome.value
              /\ outcome.value.id = outcome.request_id
              /\ outcome.value.status = PROPOSED
              /\ outcome.value.approved_at = None
              /\ outcome.value.completed_at = None
              /\ outcome.value.results = NoneDict
              /\ outcome.value.advisor_suggestions = before.argument.advisor_suggestions
              /\ remote_calls = before.remote_calls
              /\ awaiting = before.awaiting

\* propose_research just registered a second request, the first one being failed.
C12_Witness ==
    /\ outcome.op = "propose"
    /\ outcome.kind = "return"
    /\ Len(before.pending_requests) = 1
    /\ before.pending_requests[1].status = FAILED
    /\ Len(pending_requests) = 2

\* C13: an approve_research call that finds the request proposed returns True,
\* sets status to approved and approved_at to a timestamp, and changes nothing
\* else: results and completed_at stay None, every other field of the request
\* and every other request are as before, and no remote call is issued.
C13_ApproveFrame ==
    (/\ outcome.op = "approve"
     /\ outcome.request_id \in BeforeKeys
     /\ BeforeGet(outcome.request_id).status = PROPOSED)
       => LET old == BeforeGet(outcome.request_id)
              new == Get(outcome.request_id)
          IN  /\ outcome.kind = "return"
              /\ outcome.value = True
              /\ new.status = APPROVED
              /\ new.approved_at # None
              /\ new.results = NoneDict
              /\ new.completed_at = None
              /\ new = [old EXCEPT !.status = new.status, !.approved_at = new.approved_at]
              /\ Len(pending_requests) = Len(before.pending_requests)
              /\ \A i \in 1..Len(pending_requests) :
                    pending_requests[i].id # outcome.request_id
                       => pending_requests[i] = before.pending_requests[i]
              /\ remote_calls = before.remote_calls
              /\ awaiting = before.awaiting

\* approve_research just approved the second of two requests, strictly later
\* than the request was created.
C13_Witness ==
    /\ outcome.op = "approve"
    /\ outcome.value = True
    /\ Len(pending_requests) = 2
    /\ pending_requests[2].id = outcome.request_id
    /\ pending_requests[2].approved_at > pending_requests[2].created_at

\* C14: a deny_research call that finds the request proposed returns True and
\* sets status to denied; approved_at and completed_at stay None; results is
\* {"denial_reason": reason} exactly when the reason is a non-empty string, and
\* stays None when the reason is None or ""; nothing else changes.
C14_DenyReason ==
    (/\ outcome.op = "deny"
     /\ outcome.request_id \in BeforeKeys
     /\ BeforeGet(outcome.request_id).status = PROPOSED)
       => LET old == BeforeGet(outcome.request_id)
              new == Get(outcome.request_id)
              reason == before.argument.reason
          IN  /\ outcome.kind = "return"
              /\ outcome.value = True
              /\ new.status = DENIED
              /\ new.approved_at = None
              /\ new.completed_at = None
              /\ reason \in {"None", ""} => new.results = NoneDict
              /\ reason \notin {"None", ""} => new.results = [denial_reason |-> reason]
              /\ new = [old EXCEPT !.status = new.status, !.results = new.results]
              /\ remote_calls = before.remote_calls
              /\ awaiting = before.awaiting

\* deny_research just denied a request with the empty string as reason.
C14_Witness ==
    /\ outcome.op = "deny"
    /\ outcome.value = True
    /\ before.argument.reason = ""
    /\ Get(outcome.request_id).status = DENIED
    /\ Get(outcome.request_id).results = NoneDict

\* The fields of a request that are set when it is proposed.
ProposalFields(request) ==
    [id |-> request.id,
     query |-> request.query,
     original_context |-> request.original_context,
     advisor_suggestions |-> request.advisor_suggestions,
     refined_query |-> request.refined_query,
     cost_estimate |-> request.cost_estimate,
     created_at |-> request.created_at]

\* C15: id, query, original_context, advisor_suggestions, refined_query,
\* cost_estimate and created_at of a registered request are the same after
\* every handler step as before it, whether the step succeeded or not.
C15_ProposalFieldsFixed ==
    \A request_id \in BeforeKeys :
        /\ Known(request_id)
        /\ ProposalFields(Get(request_id)) = ProposalFields(BeforeGet(request_id))

\* An execution just completed, strictly later than its request was created.
C15_Witness ==
    /\ outcome.op = "execute"
    /\ outcome.kind = "return"
    /\ Get(outcome.request_id).status = COMPLETED
    /\ Get(outcome.request_id).created_at < Get(outcome.request_id).completed_at

\* C16: the registry only grows.  Every id registered when a step starts is
\* registered when it ends, at the same place in insertion order, so no step
\* removes or replaces an entry; each id is registered once; and a request
\* returned by propose_research is found under the id it carries.
C16_RegistryOnlyGrows ==
    /\ Len(pending_requests) >= Len(before.pending_requests)
    /\ \A i \in 1..Len(before.pending_requests) :
          pending_requests[i].id = before.pending_requests[i].id
    /\ \A i, j \in 1..Len(pending_requests) :
          pending_requests[i].id = pending_requests[j].id => i = j
    /\ (outcome.op = "propose" /\ outcome.kind = "return")
          => /\ Known(outcome.value.id)
             /\ Get(outcome.value.id) = outcome.value

\* deny_research just denied the second of two requests, the first one being
\* completed: both are still registered.
C16_Witness ==
    /\ outcome.op = "deny"
    /\ outcome.value = True
    /\ Len(before.pending_requests) = 2
    /\ before.pending_requests[1].status = COMPLETED
    /\ Len(pending_requests) = 2

\* C17: in every reachable state and for every registered request, approved_at
\* is set exactly when the status is approved, in_progress, completed or failed
\* (None for proposed and denied), and completed_at is set exactly when the
\* status is completed (None for failed in particular).
C17_Timestamps ==
    \A request_id \in Keys :
        LET request == Get(request_id)
        IN  /\ request.approved_at # None
                  <=> request.status \in {APPROVED, IN_PROGRESS, COMPLETED, FAILED}
            /\ request.completed_at # None <=> request.status = COMPLETED
            /\ request.created_at # None

\* The registry holds a failed request next to a completed one.
C17_Witness ==
    \E a, b \in Keys : Get(a).status = FAILED /\ Get(b).status = COMPLETED

\* C18: in every reachable state and for every registered request, results is
\* None while the status is proposed, approved or in_progress, is the research
\* payload when the status is completed and an error description when it is
\* failed, and holds a denial reason only when the status is denied.
C18_Results ==
    \A request_id \in Keys :
        LET request == Get(request_id)
        IN  /\ request.status \in {PROPOSED, APPROVED, IN_PROGRESS} => request.results = NoneDict
            /\ request.status = COMPLETED
                  => /\ request.results # NoneDict
                     /\ DOMAIN request.results
                           = {"research", "model_used", "timestamp", "tokens_used"}
            /\ request.status = FAILED
                  => /\ request.results # NoneDict
                     /\ DOMAIN request.results = {"error"}
            /\ "denial_reason" \in DOMAIN request.results => request.status = DENIED

\* The registry holds a request denied with a reason next to one in progress.
C18_Witness ==
    \E a, b \in Keys :
        /\ Get(a).status = DENIED
        /\ Get(a).results = [denial_reason |-> "too costly"]
        /\ Get(b).status = IN_PROGRESS

\* C19: a request that is in_progress when a step starts has its remote call
\* still outstanding; the step leaves the request exactly as it was, still
\* in_progress and still awaited, unless the step is the resumption of that
\* execution on the remote call's answer, which ends it completed or failed.
\* approve_research and deny_research called on it return False, and
\* execute_approved_research called on it raises the precondition error, all
\* without changing anything.
C19_NoTimeoutNoCancel ==
    \A request_id \in BeforeKeys :
        BeforeGet(request_id).status = IN_PROGRESS
           => /\ before.awaiting[request_id] = 1
              /\ \/ /\ Get(request_id) = BeforeGet(request_id)
                    /\ awaiting[request_id] = 1
                 \/ /\ ExecuteResumed
                    /\ outcome.request_id = request_id
                    /\ Get(request_id).status \in {COMPLETED, FAILED}
                    /\ awaiting[request_id] = 0
              /\ (outcome.request_id = request_id /\ outcome.op \in {"approve", "deny"})
                    => outcome.value = False /\ NothingChanged
              /\ (outcome.request_id = request_id /\ ExecuteCalled)
                    => /\ outcome.kind = "raise"
                       /\ outcome.value.type = "ValueError"
                       /\ NothingChanged

\* deny_research was just called on a request whose remote call is outstanding,
\* and the request is still in progress.
C19_Witness ==
    /\ outcome.op = "deny"
    /\ outcome.request_id \in BeforeKeys
    /\ BeforeGet(outcome.request_id).status = IN_PROGRESS
    /\ Get(outcome.request_id).status = IN_PROGRESS
    /\ awaiting[outcome.request_id] = 1

\* C20: if every remote call eventually returns or raises, every request that
\* is in_progress eventually is completed or failed.
C20_Liveness ==
    \A request_id \in Ids :
        (Known(request_id) /\ Get(request_id).status = IN_PROGRESS)
           ~> (Known(request_id) /\ Get(request_id).status \in {COMPLETED, FAILED})

\* The remote call of an accepted execution was just answered and its request
\* left in_progress, while another request is still in progress.
C20_Witness ==
    /\ ExecuteResumed
    /\ BeforeGet(outcome.request_id).status = IN_PROGRESS
    /\ Get(outcome.request_id).status \in {COMPLETED, FAILED}
    /\ \E other \in Keys : Get(other).status = IN_PROGRESS

----------------------------------------------------------------------------
\* Vocabulary of the claims about app.py.

\* The step just taken was a chat or panel step that reached the completion
\* client.
ReachedComplete ==
    \/ outcome.op = "chat" /\ "context" \in DOMAIN outcome.value
    \/ outcome.op = "chat" /\ outcome.kind = "return"
    \/ outcome.op = "panel" /\ outcome.kind \in {"running", "return"} /\ outcome.calls # << >>

\* The condition complete() fails with when no key is configured.
KeyNotConfigured(e) ==
    /\ e.type = "HTTPException"
    /\ e.status_code = 500
    /\ e.detail = <<"OpenRouter", "API", "key", "not", "configured.">>

\* C21: while the API key is not configured, no step of chat, panel or a
\* research endpoint sends a network request: no remote answer is consumed, no
\* research request has a remote call, every completion call of chat and panel
\* fails with the key-not-configured condition without posting, and every
\* research endpoint answers without calling the research agent.
C21_NoRequestWithoutKey ==
    ~Truthy(OPENROUTER_API_KEY)
       => /\ before.response = NoneDict
          /\ \A request_id \in Ids : remote_calls[request_id] = 0 /\ awaiting[request_id] = 0
          /\ pending_requests = << >>
          /\ outcome.op \in {"chat", "panel"}
                => /\ outcome.posted = 0
                   /\ \A i \in 1..Len(IF outcome.op = "panel" THEN outcome.calls ELSE << >>) :
                         outcome.calls[i].posted = 0 /\ ~outcome.calls[i].succeeded
          /\ (outcome.op = "chat" /\ ReachedComplete)
                => outcome.kind = "raise" /\ KeyNotConfigured(outcome.value.context)
          /\ (outcome.op = "panel" /\ outcome.kind = "running" /\ outcome.calls # << >>)
                => KeyNotConfigured(outcome.value.logged)
          /\ (outcome.op = "panel" /\ outcome.kind = "return")
                => outcome.value.responses = << >>
          /\ "endpoint" \in DOMAIN before.argument
                => http \in {NotConfigured, [pending |-> << >>, completed |-> << >>]}

\* Without a key, a panel over two advisors just returned after two completion
\* calls.
C21_Witness ==
    /\ ~Truthy(OPENROUTER_API_KEY)
    /\ outcome.op = "panel"
    /\ outcome.kind = "return"
    /\ Len(outcome.calls) = 2

\* The two conditions complete() maps failures to.
ServiceError(e) ==
    /\ e.type = "HTTPException"
    /\ e.status_code = 500
    /\ SubSeq(e.detail, 1, 3) = <<"AI", "service", "error:">>

InvalidResponse(e) ==
    /\ e.type = "HTTPException"
    /\ e.status_code = 500
    /\ e.detail = <<"Invalid", "AI", "service", "response">>

\* A transport-level failure or a non-success HTTP status.
TransportFailure(answer) == answer.raised \/ answer.status >= 400

\* A body without choices, with an empty choices list, or whose first choice
\* lacks the message or its content.
MalformedBody(answer) ==
    /\ ~TransportFailure(answer)
    /\ \/ "choices" \notin DOMAIN answer.json
       \/ answer.json.choices = << >>
       \/ "message" \notin DOMAIN answer.json.choices[1]
       \/ "content" \notin DOMAIN answer.json.choices[1].message

\* C22: a chat step whose completion call posted its request made one network
\* call, and it either returned the generated text of a well-formed body, or
\* complete() failed with the service-error condition on a transport failure
\* or non-success status, or with the invalid-response condition on a
\* malformed body; complete() failed with nothing else.
C22_ErrorMapping ==
    (outcome.op = "chat" /\ before.response # NoneDict)
       => /\ outcome.posted = 1
          /\ TransportFailure(before.response)
                => outcome.kind = "raise" /\ ServiceError(outcome.value.context)
          /\ MalformedBody(before.response)
                => outcome.kind = "raise" /\ InvalidResponse(outcome.value.context)
          /\ (~TransportFailure(before.response) /\ ~MalformedBody(before.response))
                => /\ outcome.kind = "return"
                   /\ outcome.value.response = before.response.json.choices[1].message.content

----------------------------------------------------------------------------
\* Claims about the research endpoints of app.py.

\* The endpoint answered with an HTTP error of that status code.
HttpError(status_code) ==
    "status_code" \in DOMAIN http /\ http.status_code = status_code

\* C23: the approve and deny endpoints answer with the 404 not-found-or-wrong-
\* state error exactly when the workflow call returned False, and with their
\* success body otherwise; once an execute call has ended, the execute endpoint
\* answers with a 400 client error exactly when the workflow raised the
\* precondition ValueError; and an execution whose remote call failed is
\* answered with the structured failed result, not with an HTTP error.
C23_RouterMapping ==
    /\ outcome.op \in {"approve", "deny"}
          => /\ (http = NotFoundOrWrongState) <=> (outcome.value = False)
             /\ HttpError(404) <=> (outcome.value = False)
             /\ outcome.value = True
                   => http = [status |-> IF outcome.op = "approve" THEN "approved" ELSE "denied",
                              request_id |-> outcome.request_id]
    /\ (outcome.op = "execute" /\ outcome.kind # "await")
          => /\ HttpError(400) <=> (outcome.kind = "raise" /\ outcome.value.type = "ValueError")
             /\ HttpError(400) => http.detail = Str(outcome.value) /\ NothingChanged
             /\ outcome.kind = "return" => http = outcome.value
    /\ (ExecuteResumed /\ ~HasPayload(before.response))
          => /\ "status_code" \notin DOMAIN http
             /\ http.status = "failed"
             /\ http.request_id = outcome.request_id
             /\ Get(outcome.request_id).status = FAILED

\* The approve endpoint just answered 404 for a request that was already denied.
C23_Witness ==
    /\ outcome.op = "approve"
    /\ outcome.request_id \in BeforeKeys
    /\ BeforeGet(outcome.request_id).status = DENIED
    /\ HttpError(404)

----------------------------------------------------------------------------
\* Claims about _refine_query_with_suggestions.

\* The heading between the query and the bullets.
RefineHeading ==
    <<"\n", "\n", "Specific", "areas", "to", "investigate", "based", "on", "advisor",
      "input:", "\n">>

\* Where bullet i starts in the refined query: after the query, the heading and
\* the bullets before it, each a dash, the suggestion's text and a line end.
RECURSIVE BulletOffset(_, _, _)
BulletOffset(query, suggestions, i) ==
    IF i = 1 THEN Len(query) + Len(RefineHeading)
    ELSE BulletOffset(query, suggestions, i - 1) + Len(suggestions[i - 1].suggestion) + 2

\* The list with every entry attributed to the same advisor.
Unattributed(suggestions) ==
    [i \in 1..Len(suggestions) |-> [suggestions[i] EXCEPT !.advisor = "anyone"]]

\* The advisor names of the entries.
AdvisorNames == {entry.advisor : entry \in {e \in SuggestionEntries : "advisor" \in DOMAIN e}}

\* C24: the refined query of a call that returns is the query, then the fixed
\* heading, then for every list element in input order one bullet made of a
\* dash, that suggestion's text and a line end, and nothing else; it is the
\* same whatever the context and whoever the advisors are, no token of it is
\* an advisor name or a context word, and for the empty list it is the query
\* and the heading.
C24_RefinedQuery ==
    (outcome.op = "_refine" /\ outcome.kind = "return")
       => LET query == before.argument.query
              suggestions == before.argument.suggestions
              refined == outcome.value.refined
              n == Len(suggestions)
          IN  /\ SubSeq(refined, 1, Len(query)) = query
              /\ SubSeq(refined, Len(query) + 1, Len(query) + Len(RefineHeading)) = RefineHeading
              /\ \A i \in 1..n :
                    LET at == BulletOffset(query, suggestions, i)
                        text == suggestions[i].suggestion
                    IN  /\ refined[at + 1] = "-"
                        /\ SubSeq(refined, at + 2, at + 1 + Len(text)) = text
                        /\ refined[at + 2 + Len(text)] = "\n"
              /\ Len(refined) = BulletOffset(query, suggestions, n + 1)
              /\ Cardinality({i \in 1..Len(refined) : refined[i] = "-"}) = n
              /\ \A context \in RefineContexts :
                    _refine_query_with_suggestions(query, context, Unattributed(suggestions))
                       = refined
              /\ \A i \in 1..Len(refined) : refined[i] \notin AdvisorNames
              /\ \A i \in 1..Len(refined) :
                    \A context \in RefineContexts :
                       \A j \in 1..Len(context) : refined[i] # context[j]
              /\ n = 0 => refined = query \o RefineHeading

\* The function just returned for a list that holds the same suggestion twice,
\* from two advisors.
C24_Witness ==
    /\ outcome.op = "_refine"
    /\ outcome.kind = "return"
    /\ before.argument.suggestions = <<alex, tony>>

----------------------------------------------------------------------------
\* Claims about the panel.

\* The advisors of the calls that succeeded, in call order.
RECURSIVE Succeeded(_)
Succeeded(calls) ==
    IF calls = << >> THEN << >>
    ELSE (IF Head(calls).succeeded THEN <<Head(calls).advisor>> ELSE << >>)
            \o Succeeded(Tail(calls))

\* C25: a panel works on the advisors of the request, or on all advisors of
\* the table in table order when the request names none; its completion calls
\* are made one per step, call i for entry i of that selection, none for an
\* entry twice and none before the call of the entry before it has ended; it
\* returns once every entry had its call, failed or not, and its response list
\* names exactly the entries whose call succeeded, in selection order; the only
\* error it ends with is the one of the validation.
C25_PanelOrder ==
    outcome.op = "panel"
       => /\ "advisors" \in DOMAIN before.argument
                => outcome.selected
                      = IF before.argument.advisors.given
                           /\ Len(before.argument.advisors.list) > 0
                        THEN before.argument.advisors.list
                        ELSE before.ADVISOR_PROFILES
          /\ Len(outcome.calls) <= Len(outcome.selected)
          /\ \A i \in 1..Len(outcome.calls) :
                /\ outcome.calls[i].advisor = outcome.selected[i]
                /\ outcome.calls[i].posted <= 1
          /\ outcome.kind = "running"
                => /\ panel.active
                   /\ panel.selected = outcome.selected
                   /\ panel.calls = outcome.calls
                   /\ panel.i = Len(outcome.calls) + 1
                   /\ "advisor_id" \in DOMAIN before.argument
                         => before.argument.advisor_id = outcome.selected[Len(outcome.calls)]
          /\ outcome.kind = "return"
                => /\ Len(outcome.calls) = Len(outcome.selected)
                   /\ [i \in 1..Len(outcome.value.responses) |-> outcome.value.responses[i].advisor]
                         = Succeeded(outcome.calls)
                   /\ http = outcome.value
          /\ outcome.kind = "raise" => "advisors" \in DOMAIN before.argument

\* A panel over two advisors just returned one response: the first call failed
\* and the second succeeded.
C25_Witness ==
    /\ outcome.op = "panel"
    /\ outcome.kind = "return"
    /\ Len(outcome.calls) = 2
    /\ ~outcome.calls[1].succeeded
    /\ outcome.calls[2].succeeded
    /\ Len(outcome.value.responses) = 1

----------------------------------------------------------------------------
\* Claims about the research workflow under interleaving.

\* C26: a step of approve_research, deny_research or execute_approved_research
\* addressed to one id, whether it succeeds or not, leaves every other
\* registered request as it was, field by field, with its remote-call counters.
C26_Independence ==
    outcome.op \in {"approve", "deny", "execute"}
       => \A other \in BeforeKeys :
             other # outcome.request_id
                => /\ Known(other)
                   /\ Get(other) = BeforeGet(other)
                   /\ Index(other) = BeforeIndex(other)
                   /\ awaiting[other] = before.awaiting[other]
                   /\ remote_calls[other] = before.remote_calls[other]

\* The remote call of one request was just answered and changed that request,
\* while the remote call of another request is in flight.
C26_Witness ==
    /\ ExecuteResumed
    /\ Get(outcome.request_id) # BeforeGet(outcome.request_id)
    /\ \E other \in BeforeKeys :
          /\ other # outcome.request_id
          /\ before.awaiting[other] = 1
          /\ Get(other).status = IN_PROGRESS

\* C27: a registered request is in_progress exactly when one call of
\* execute_approved_research on it is suspended on its remote call, and no
\* request has more than one such call; only execute_approved_research ever
\* suspends; and every registered request is whole: its refined_query and
\* cost_estimate are the ones computed from its query and suggestions, and its
\* timestamps and results are those of its status.
C27_InProgressIffSuspended ==
    /\ \A request_id \in Ids :
          /\ awaiting[request_id] \in {0, 1}
          /\ awaiting[request_id] = 1
                <=> (Known(request_id) /\ Get(request_id).status = IN_PROGRESS)
    /\ outcome.kind = "await" => outcome.op = "execute"
    /\ outcome.op \in {"propose", "approve", "deny", "get_pending"}
          => outcome.kind \in {"return", "raise"} /\ awaiting = before.awaiting
    /\ \A request_id \in Keys :
          LET request == Get(request_id) IN
          /\ request.refined_query
                = request.query \o RefineHeading
                     \o Bullets(request.advisor_suggestions)
          /\ request.cost_estimate = CostEstimate(request.refined_query)
          /\ request.cost_estimate > 0
          /\ request.status \in {PROPOSED, DENIED}
                => request.approved_at = None /\ request.completed_at = None
          /\ request.status \in {APPROVED, IN_PROGRESS}
                => /\ request.approved_at # None
                   /\ request.completed_at = None
                   /\ request.results = NoneDict
          /\ request.status = COMPLETED
                => request.completed_at # None /\ request.results # NoneDict
          /\ request.status = FAILED => "error" \in DOMAIN request.results

\* approve_research was just called while a request is in progress, its one
\* execute call suspended.
C27_Witness ==
    /\ outcome.op = "approve"
    /\ outcome.value = True
    /\ \E request_id \in Keys :
          Get(request_id).status = IN_PROGRESS /\ awaiting[request_id] = 1

\* C28: a propose_research call on a suggestion list with an entry that lacks
\* the 'advisor' or the 'suggestion' key raises KeyError for the missing key
\* and stores nothing: the registry, the remote-call counters and what
\* get_pending_requests would return are what they were before the call, and
\* the endpoint answers with an error.
C28_FailedProposeStoresNothing ==
    (outcome.op = "propose" /\ ~WellFormed(before.argument.advisor_suggestions))
       => /\ outcome.kind = "raise"
          /\ outcome.value.type = "KeyError"
          /\ outcome.value.key \in {"advisor", "suggestion"}
          /\ pending_requests = before.pending_requests
          /\ NothingChanged
          /\ SelectSeq(pending_requests, IsProposed)
                = SelectSeq(before.pending_requests, IsProposed)
          /\ HttpError(500)

\* propose_research just raised on a list whose second entry has no
\* suggestion, with a request already registered.
C28_Witness ==
    /\ outcome.op = "propose"
    /\ outcome.kind = "raise"
    /\ before.argument.advisor_suggestions = <<alex, no_suggestion>>
    /\ before.pending_requests # << >>
    /\ pending_requests = before.pending_requests

\* The ids of the entries of a list of the listing endpoint.
ListedIds(items) == {items[i].id : i \in 1..Len(items)}

\* C29: the listing endpoint answers with two lists: "pending" holds, once
\* each, exactly the registered requests in status proposed, and "completed"
\* exactly those in status completed, failed or denied; no request is in both,
\* and a request in status approved or in_progress is in neither.
C29_ListingPartition ==
    outcome.op = "get_pending"
       => /\ ListedIds(http.pending)
                = {request_id \in Keys : Get(request_id).status = PROPOSED}
          /\ ListedIds(http.completed)
                = {request_id \in Keys : Get(request_id).status \in {COMPLETED, FAILED, DENIED}}
          /\ Cardinality(ListedIds(http.pending)) = Len(http.pending)
          /\ Cardinality(ListedIds(http.completed)) = Len(http.completed)
          /\ ListedIds(http.pending) \cap ListedIds(http.completed) = {}
          /\ \A request_id \in Keys :
                Get(request_id).status \in {APPROVED, IN_PROGRESS}
                   => request_id \notin ListedIds(http.pending) \cup ListedIds(http.completed)
          /\ \A i \in 1..Len(http.completed) :
                http.completed[i].status = Get(http.completed[i].id).status

\* The listing endpoint just answered with one failed request in "completed"
\* while another request is in progress.
C29_Witness ==
    /\ outcome.op = "get_pending"
    /\ Len(http.completed) = 1
    /\ http.completed[1].status = FAILED
    /\ \E request_id \in Keys : Get(request_id).status = IN_PROGRESS

\* C30: a panel that passed validation ends only by returning its response
\* list: while it runs, every advisor it has still to call has a profile, so
\* the lookup of the loop finds it; the only error a panel ends with is the 404
\* of the validation, never an unhandled KeyError answered as an internal
\* server error.  A DELETE request for one of its advisors that arrives while
\* the panel runs waits until the panel has returned.
C30_PanelSurvivesDelete ==
    /\ panel.active
          => /\ panel.i \in 1..Len(panel.selected)
             /\ \A j \in panel.i..Len(panel.selected) :
                   HasProfile(ADVISOR_PROFILES, panel.selected[j])
             /\ \A w \in panel.waiting :
                   HasProfile(before.ADVISOR_PROFILES, w.advisor_id)
                      => HasProfile(ADVISOR_PROFILES, w.advisor_id)
    /\ outcome.op = "panel"
          => /\ outcome.kind \in {"running", "return", "raise"}
             /\ outcome.kind = "raise"
                   => /\ outcome.value = AdvisorNotFound(outcome.value.detail[2])
                      /\ outcome.calls = << >>
                      /\ ~HasProfile(ADVISOR_PROFILES, outcome.value.detail[2])
                      /\ http = outcome.value
             /\ outcome.kind = "return"
                   => /\ http.responses = outcome.value.responses
                      /\ Len(http.responses) <= Len(outcome.selected)
                      /\ \A i \in 1..Len(outcome.selected) :
                            HasProfile(ADVISOR_PROFILES, outcome.selected[i])
    /\ (outcome.op = "panel" /\ outcome.kind # "raise") => http # InternalServerError

\* A panel over two advisors just returned both responses, and the DELETE
\* request for its second advisor, which arrived after the first completion
\* call, is still waiting.
C30_Witness ==
    /\ outcome.op = "panel"
    /\ outcome.kind = "return"
    /\ Len(outcome.selected) = 2
    /\ Len(outcome.value.responses) = 2
    /\ [advisor_id |-> outcome.selected[2], calls |-> 1] \in panel.waiting

====
